---- MODULE Spec2Model ----
(***************************************************************************)
(* Schema validation of graphql-with-inputunion (type/validate.js.flow).   *)
(*                                                                         *)
(* A schema is a record: the three root type references, the directive     *)
(* list, the type map (a sequence of named types in Object.keys order) and *)
(* the legacy-name allowlist.  A type reference is a sequence of wrappers  *)
(* ("NonNull", "List") ending in the name of a named type of the type map. *)
(* A diagnostic is a record of the GraphQLError message and of `at`, the   *)
(* position in the schema graph of the entity the validator was visiting   *)
(* when it reported (pass, directive or type index, field or claim index,  *)
(* argument or interface-field index); `at` stands for the AST locations   *)
(* of the error, which are not modelled.                                   *)
(***************************************************************************)
EXTENDS Naturals, Sequences, FiniteSets, TLC

VARIABLES
  schema,            \* the schema instance the calls are made on
  validationErrors,  \* schema.__validationErrors: << >> absent, <<list>> set
  returned,          \* what the last call returned: << >> nothing, <<list>>
  thrown,            \* what the last call threw: << >> nothing, <<message>>
  lastCall,          \* the last call: its operation and its input
  calls,             \* calls made so far
  passRuns,          \* times the three passes were run
  returns,           \* validateSchema invocations that returned a list
  firstReturned,     \* the list the first of them returned
  pc,                \* where the call in progress stands ("idle": none)
  context            \* its context._errors: << >> no context, <<list>>

vars == <<schema, validationErrors, returned, thrown, lastCall, calls,
          passRuns, returns, firstReturned, pc, context>>

\* ---------------------------------------------------------------- bounds

\* Calls made on one schema instance.
MaxCalls == 3

\* Arguments of the directive of DirectiveSchemas.
MaxDirectiveArgs == 3

\* Members of the union and of the input union of UnionSchemas.
MaxMembers == 3

\* Arguments of the interface field and of the object field of
\* InterfaceSchemas.
MaxIfaceArgs == 1
MaxObjectArgs == 2

\* Arguments of the field F.f, value definitions in the AST node of the
\* enum E and interfaces claimed by the object C, of DuplicateSchemas.
MaxFieldArgs == 2
MaxEnumValueNodes == 2
MaxClaims == 3

\* The extension nodes of the type whose field definitions are counted.
MaxExtensions == 2

\* ------------------------------------------------------- values and types

\* undefined / null root type reference.
NONE == "undefined"

\* An absent optional value is <<>>, a present one <<v>>.
Some(v) == <<v>>

Last(s) == s[Len(s)]

\* The named type a (possibly wrapped) type reference ends in.
NamedTypeName(ref) == Last(ref)

\* String(type): GraphQLList is "[T]", GraphQLNonNull is "T!".
RECURSIVE TypeString(_)
TypeString(ref) ==
  IF Len(ref) = 1 THEN ref[1]
  ELSE IF ref[1] = "NonNull" THEN TypeString(Tail(ref)) \o "!"
  ELSE "[" \o TypeString(Tail(ref)) \o "]"

\* The type of the type map with the given name.
TypeNamed(s, name) ==
  s.types[CHOOSE i \in 1..Len(s.types) : s.types[i].name = name]

KindOfName(s, name) == TypeNamed(s, name).kind

\* The kind-classification predicates of type/definition.js, on a named type
\* record.
isObjectType(type) == type.kind = "Object"
isInterfaceType(type) == type.kind = "Interface"
isUnionType(type) == type.kind = "Union"
isInputUnionType(type) == type.kind = "InputUnion"
isEnumType(type) == type.kind = "Enum"
isInputObjectType(type) == type.kind = "InputObject"
isScalarType(type) == type.kind = "Scalar"

\* isNamedType: one of the seven named kinds (a type-map value that is
\* anything else has kind "NotNamed").
isNamedType(type) ==
  type.kind \in {"Scalar", "Object", "Interface", "Union", "InputUnion",
                 "Enum", "InputObject"}

\* isNonNullType on a type reference.
isNonNullType(ref) == Len(ref) > 1 /\ ref[1] = "NonNull"

isListType(ref) == Len(ref) > 1 /\ ref[1] = "List"

\* isInputType: scalar, enum or input object, seen through the wrappers.
isInputType(s, ref) ==
  KindOfName(s, NamedTypeName(ref)) \in {"Scalar", "Enum", "InputObject"}

\* isInputUnionType(arg.type): an instanceof test on the reference itself, so
\* a wrapped input union is not one.
isInputUnionTypeRef(s, ref) ==
  Len(ref) = 1 /\ KindOfName(s, ref[1]) = "InputUnion"

\* isOutputType: scalar, object, interface, union or enum, seen through the
\* wrappers.
isOutputType(s, ref) ==
  KindOfName(s, NamedTypeName(ref)) \in
    {"Scalar", "Object", "Interface", "Union", "Enum"}

\* ------------------------------------------------------------ the context

\* SchemaValidationContext.reportError: one diagnostic appended.
reportError(message, at) == << [message |-> message, at |-> at] >>

NoErrors == << >>

\* Names that utilities/assertValidName rejects: those starting with "__"
\* and those not matching /^[_a-zA-Z][_a-zA-Z0-9]*$/.
ReservedNames == {"__x", "__T"}
MalformedNames == {"9z", "a-b"}

isValidNameError(name) ==
  IF name \in ReservedNames
    THEN Some("Name \"" \o name \o "\" must not begin with \"__\", which is "
              \o "reserved by GraphQL introspection.")
  ELSE IF name \in MalformedNames
    THEN Some("Names must match /^[_a-zA-Z][_a-zA-Z0-9]*$/ but \"" \o name
              \o "\" does not.")
  ELSE << >>

\* validateName(context, node).
validateName(s, name, at) ==
  IF s.allowedLegacyNames # << >>
     /\ \E i \in 1..Len(s.allowedLegacyNames[1]) :
          s.allowedLegacyNames[1][i] = name
    THEN NoErrors
  ELSE LET error == isValidNameError(name)
       IN IF error # << >> THEN reportError(error[1], at) ELSE NoErrors

\* ------------------------------------------------------------- root types

\* Root validation that holds the mutation root to the query root's rule: an
\* absent mutation root is reported too.
validateRootTypesMutationRequired(s) ==
  (IF s.queryType = NONE
     THEN reportError("Query root type must be provided.", <<1, 1, 0, 0>>)
   ELSE IF ~isObjectType(TypeNamed(s, s.queryType))
     THEN reportError("Query root type must be Object type, it cannot be "
                      \o s.queryType \o ".", <<1, 1, 0, 0>>)
   ELSE NoErrors)
  \o (IF s.mutationType = NONE
        THEN reportError("Mutation root type must be provided.", <<1, 2, 0, 0>>)
      ELSE IF ~isObjectType(TypeNamed(s, s.mutationType))
        THEN reportError("Mutation root type must be Object type if provided, it cannot be "
                         \o s.mutationType \o ".", <<1, 2, 0, 0>>)
      ELSE NoErrors)
  \o (IF s.subscriptionType # NONE
         /\ ~isObjectType(TypeNamed(s, s.subscriptionType))
        THEN reportError("Subscription root type must be Object type if provided, it cannot be "
                         \o s.subscriptionType \o ".", <<1, 3, 0, 0>>)
      ELSE NoErrors)

\* validateRootTypes; String(type) of a named type is its name.
validateRootTypes(s) ==
  LET queryType == s.queryType
      mutationType == s.mutationType
      subscriptionType == s.subscriptionType
      q == IF queryType = NONE
             THEN reportError("Query root type must be provided.",
                              <<1, 1, 0, 0>>)
           ELSE IF ~isObjectType(TypeNamed(s, queryType))
             THEN reportError("Query root type must be Object type, it cannot be "
                              \o queryType \o ".", <<1, 1, 0, 0>>)
           ELSE NoErrors
      m == IF mutationType # NONE /\ ~isObjectType(TypeNamed(s, mutationType))
             THEN reportError("Mutation root type must be Object type if provided, it cannot be "
                              \o mutationType \o ".", <<1, 2, 0, 0>>)
           ELSE NoErrors
      u == IF subscriptionType # NONE
              /\ ~isObjectType(TypeNamed(s, subscriptionType))
             THEN reportError("Subscription root type must be Object type if provided, it cannot be "
                              \o subscriptionType \o ".", <<1, 3, 0, 0>>)
           ELSE NoErrors
  IN q \o m \o u

\* ------------------------------------------------------------- directives

\* The argument loop without the "return" after the duplicate report: the
\* type of a repeated argument is checked as well.
RECURSIVE directiveArgsLoopNoSkip(_, _, _, _, _)
directiveArgsLoopNoSkip(s, directive, d, i, argNames) ==
  IF i > Len(directive.args) THEN NoErrors
  ELSE
    LET arg == directive.args[i]
        argName == arg.name
    IN validateName(s, argName, <<2, d, i, 0>>)
       \o (IF argName \in argNames
             THEN reportError("Argument @" \o directive.name \o "(" \o argName
                              \o ":) can only be defined once.", <<2, d, i, 0>>)
           ELSE NoErrors)
       \o (IF ~isInputType(s, arg.type) /\ ~isInputUnionTypeRef(s, arg.type)
             THEN reportError("The type of @" \o directive.name \o "("
                              \o argName \o ":) must be Input Type but got: "
                              \o TypeString(arg.type) \o ".", <<2, d, i, 0>>)
           ELSE NoErrors)
       \o directiveArgsLoopNoSkip(s, directive, d, i + 1,
                                  argNames \cup {argName})

RECURSIVE directiveArgsLoop(_, _, _, _, _)
directiveArgsLoop(s, directive, d, i, argNames) ==
  IF i > Len(directive.args) THEN NoErrors
  ELSE
    LET arg == directive.args[i]
        argName == arg.name
        named == validateName(s, argName, <<2, d, i, 0>>)
    IN IF argName \in argNames
         THEN named
              \o reportError("Argument @" \o directive.name \o "(" \o argName
                             \o ":) can only be defined once.", <<2, d, i, 0>>)
              \o directiveArgsLoop(s, directive, d, i + 1, argNames)
       ELSE named
            \o (IF ~isInputType(s, arg.type) /\ ~isInputUnionTypeRef(s, arg.type)
                  THEN reportError("The type of @" \o directive.name \o "("
                                   \o argName \o ":) must be Input Type but got: "
                                   \o TypeString(arg.type) \o ".", <<2, d, i, 0>>)
                ELSE NoErrors)
            \o directiveArgsLoop(s, directive, d, i + 1,
                                 argNames \cup {argName})

\* The body of validateDirectives' loop for one registered value; the name
\* of a value that is no directive stands for its String().
validateDirective(s, directive, d) ==
  IF ~directive.isDirective
    THEN reportError("Expected directive but got: " \o directive.name \o ".",
                     <<2, d, 0, 0>>)
  ELSE validateName(s, directive.name, <<2, d, 0, 0>>)
       \o directiveArgsLoop(s, directive, d, 1, {})

RECURSIVE directivesLoop(_, _)
directivesLoop(s, d) ==
  IF d > Len(s.directives) THEN NoErrors
  ELSE validateDirective(s, s.directives[d], d) \o directivesLoop(s, d + 1)

validateDirectives(s) == directivesLoop(s, 1)

\* --------------------------------------------------------- AST locators

\* getAllObjectOrInterfaceNodes (and getAllObjectNodes): the primary node
\* followed by the extension nodes, each when present.
getAllObjectOrInterfaceNodes(type) ==
  IF type.astNode # << >>
    THEN IF type.extensionASTNodes # << >>
           THEN <<type.astNode[1]>> \o type.extensionASTNodes[1]
         ELSE <<type.astNode[1]>>
  ELSE IF type.extensionASTNodes # << >> THEN type.extensionASTNodes[1]
  ELSE << >>

RECURSIVE fieldNodesLoop(_, _, _)
fieldNodesLoop(astNodes, fieldName, i) ==
  IF i > Len(astNodes) THEN << >>
  ELSE SelectSeq(astNodes[i].fields, LAMBDA node : node = fieldName)
       \o fieldNodesLoop(astNodes, fieldName, i + 1)

\* A locator that looks for the definitions of the field in the primary
\* node only, not in the extension nodes.
getAllFieldNodesPrimaryOnly(type, fieldName) ==
  IF type.astNode # << >>
    THEN fieldNodesLoop(<<type.astNode[1]>>, fieldName, 1)
  ELSE << >>

\* getAllFieldNodes: every field definition node of that name, over the
\* primary node and the extension nodes.
getAllFieldNodes(type, fieldName) ==
  fieldNodesLoop(getAllObjectOrInterfaceNodes(type), fieldName, 1)

\* getEnumValueNodes: absent (<< >>) without an AST node, else the value
\* definition nodes of that name.
getEnumValueNodes(enumType, valueName) ==
  IF enumType.astNode = << >> THEN << >>
  ELSE Some(SelectSeq(enumType.astNode[1].values,
                      LAMBDA value : value = valueName))

\* -------------------------------------------------------- type comparators

\* utilities/typeComparators isEqualType: same named type under the same
\* wrappers.
RECURSIVE isEqualType(_, _)
isEqualType(typeA, typeB) ==
  IF Len(typeA) = 1 /\ Len(typeB) = 1 THEN typeA[1] = typeB[1]
  ELSE IF isNonNullType(typeA) /\ isNonNullType(typeB)
    THEN isEqualType(Tail(typeA), Tail(typeB))
  ELSE IF isListType(typeA) /\ isListType(typeB)
    THEN isEqualType(Tail(typeA), Tail(typeB))
  ELSE FALSE

\* schema.isPossibleType(abstractType, possibleType).
isPossibleType(s, abstractName, possibleName) ==
  LET abstract == TypeNamed(s, abstractName)
      possible == TypeNamed(s, possibleName)
  IN IF isUnionType(abstract)
       THEN \E i \in 1..Len(abstract.members) : abstract.members[i] = possibleName
     ELSE \E i \in 1..Len(possible.interfaces) :
            possible.interfaces[i] = abstractName

\* utilities/typeComparators isTypeSubTypeOf (covariant).
RECURSIVE isTypeSubTypeOf(_, _, _)
isTypeSubTypeOf(s, maybeSubType, superType) ==
  IF maybeSubType = superType THEN TRUE
  ELSE IF isNonNullType(superType)
    THEN IF isNonNullType(maybeSubType)
           THEN isTypeSubTypeOf(s, Tail(maybeSubType), Tail(superType))
         ELSE FALSE
  ELSE IF isNonNullType(maybeSubType)
    THEN isTypeSubTypeOf(s, Tail(maybeSubType), superType)
  ELSE IF isListType(superType)
    THEN IF isListType(maybeSubType)
           THEN isTypeSubTypeOf(s, Tail(maybeSubType), Tail(superType))
         ELSE FALSE
  ELSE IF isListType(maybeSubType) THEN FALSE
  ELSE KindOfName(s, superType[1]) \in {"Interface", "Union"}
       /\ KindOfName(s, maybeSubType[1]) = "Object"
       /\ isPossibleType(s, superType[1], maybeSubType[1])

\* jsutils/find on an argument list: the first argument of that name, absent
\* (<< >>) when there is none.
findArg(args, argName) ==
  IF \E i \in 1..Len(args) : args[i].name = argName
    THEN Some(args[CHOOSE i \in 1..Len(args) :
                     /\ args[i].name = argName
                     /\ \A j \in 1..(i - 1) : args[j].name # argName])
  ELSE << >>

\* fieldMap[fieldName]: the field of that name, absent (<< >>) when none.
fieldOf(type, fieldName) ==
  IF \E i \in 1..Len(type.fields) : type.fields[i].name = fieldName
    THEN Some(type.fields[CHOOSE i \in 1..Len(type.fields) :
                            type.fields[i].name = fieldName])
  ELSE << >>

\* ------------------------------------------------- fields and arguments

RECURSIVE fieldArgsLoop(_, _, _, _, _, _, _)
fieldArgsLoop(s, type, t, field, f, i, argNames) ==
  IF i > Len(field.args) THEN NoErrors
  ELSE
    LET arg == field.args[i]
        argName == arg.name
    IN validateName(s, argName, <<3, t, f, i>>)
       \o (IF argName \in argNames
             THEN reportError("Field argument " \o type.name \o "." \o field.name
                              \o "(" \o argName \o ":) can only be defined once.",
                              <<3, t, f, i>>)
           ELSE NoErrors)
       \o (IF ~isInputType(s, arg.type) /\ ~isInputUnionTypeRef(s, arg.type)
             THEN reportError("The type of " \o type.name \o "." \o field.name
                              \o "(" \o argName \o ":) must be Input Type but got: "
                              \o TypeString(arg.type) \o ".", <<3, t, f, i>>)
           ELSE NoErrors)
       \o fieldArgsLoop(s, type, t, field, f, i + 1, argNames \cup {argName})

\* The loop body without the "return" after the duplicate report: a field
\* defined more than once still has its type and its arguments checked.
validateFieldNoSkip(s, type, t, f) ==
  LET field == type.fields[f]
      fieldName == field.name
      fieldNodes == getAllFieldNodes(type, fieldName)
  IN validateName(s, fieldName, <<3, t, f, 0>>)
     \o (IF Len(fieldNodes) > 1
           THEN reportError("Field " \o type.name \o "." \o fieldName
                            \o " can only be defined once.", <<3, t, f, 0>>)
         ELSE NoErrors)
     \o (IF ~isOutputType(s, field.type)
           THEN reportError("The type of " \o type.name \o "." \o fieldName
                            \o " must be Output Type but got: "
                            \o TypeString(field.type) \o ".", <<3, t, f, 0>>)
         ELSE NoErrors)
     \o fieldArgsLoop(s, type, t, field, f, 1, {})

\* The body of validateFields' loop for one field.
validateField(s, type, t, f) ==
  LET field == type.fields[f]
      fieldName == field.name
      fieldNodes == getAllFieldNodes(type, fieldName)
  IN validateName(s, fieldName, <<3, t, f, 0>>)
     \o (IF Len(fieldNodes) > 1
           THEN reportError("Field " \o type.name \o "." \o fieldName
                            \o " can only be defined once.", <<3, t, f, 0>>)
         ELSE (IF ~isOutputType(s, field.type)
                 THEN reportError("The type of " \o type.name \o "." \o fieldName
                                  \o " must be Output Type but got: "
                                  \o TypeString(field.type) \o ".",
                                  <<3, t, f, 0>>)
               ELSE NoErrors)
              \o fieldArgsLoop(s, type, t, field, f, 1, {}))

RECURSIVE fieldsLoop(_, _, _, _)
fieldsLoop(s, type, t, f) ==
  IF f > Len(type.fields) THEN NoErrors
  ELSE validateField(s, type, t, f) \o fieldsLoop(s, type, t, f + 1)

validateFields(s, type, t) ==
  (IF Len(type.fields) = 0
     THEN reportError("Type " \o type.name \o " must define one or more fields.",
                      <<3, t, 0, 0>>)
   ELSE NoErrors)
  \o fieldsLoop(s, type, t, 1)

\* ------------------------------------------------- interface conformance

\* The loop over ifaceField.args with a covariant argument rule: a non-null
\* object argument satisfies the nullable interface argument of that type.
RECURSIVE ifaceArgsLoopCovariant(_, _, _, _, _, _)
ifaceArgsLoopCovariant(object, iface, ifaceField, objectField, at, i) ==
  IF i > Len(ifaceField.args) THEN NoErrors
  ELSE
    LET ifaceArg == ifaceField.args[i]
        argName == ifaceArg.name
        objectArg == findArg(objectField.args, argName)
        fieldName == ifaceField.name
    IN (IF objectArg = << >>
          THEN reportError("Interface field argument " \o iface.name \o "."
                           \o fieldName \o "(" \o argName \o ":) expected but "
                           \o object.name \o "." \o fieldName
                           \o " does not provide it.", at)
        ELSE IF ~isEqualType(ifaceArg.type, objectArg[1].type)
                /\ ~(isNonNullType(objectArg[1].type)
                     /\ isEqualType(ifaceArg.type, Tail(objectArg[1].type)))
          THEN reportError("Interface field argument " \o iface.name \o "."
                           \o fieldName \o "(" \o argName \o ":) expects type "
                           \o TypeString(ifaceArg.type) \o " but " \o object.name
                           \o "." \o fieldName \o "(" \o argName \o ":) is type "
                           \o TypeString(objectArg[1].type) \o ".", at)
        ELSE NoErrors)
       \o ifaceArgsLoopCovariant(object, iface, ifaceField, objectField, at,
                                 i + 1)

\* "Assert each interface field arg is implemented": the loop over
\* ifaceField.args.
RECURSIVE ifaceArgsLoop(_, _, _, _, _, _)
ifaceArgsLoop(object, iface, ifaceField, objectField, at, i) ==
  IF i > Len(ifaceField.args) THEN NoErrors
  ELSE
    LET ifaceArg == ifaceField.args[i]
        argName == ifaceArg.name
        objectArg == findArg(objectField.args, argName)
        fieldName == ifaceField.name
    IN (IF objectArg = << >>
          THEN reportError("Interface field argument " \o iface.name \o "."
                           \o fieldName \o "(" \o argName \o ":) expected but "
                           \o object.name \o "." \o fieldName
                           \o " does not provide it.", at)
        ELSE IF ~isEqualType(ifaceArg.type, objectArg[1].type)
          THEN reportError("Interface field argument " \o iface.name \o "."
                           \o fieldName \o "(" \o argName \o ":) expects type "
                           \o TypeString(ifaceArg.type) \o " but " \o object.name
                           \o "." \o fieldName \o "(" \o argName \o ":) is type "
                           \o TypeString(objectArg[1].type) \o ".", at)
        ELSE NoErrors)
       \o ifaceArgsLoop(object, iface, ifaceField, objectField, at, i + 1)

\* The loop over objectField.args without the non-null test: every argument
\* the interface field lacks is reported.
RECURSIVE objectArgsLoopAnyExtra(_, _, _, _, _, _)
objectArgsLoopAnyExtra(object, iface, ifaceField, objectField, at, i) ==
  IF i > Len(objectField.args) THEN NoErrors
  ELSE
    LET objectArg == objectField.args[i]
        argName == objectArg.name
        ifaceArg == findArg(ifaceField.args, argName)
        fieldName == ifaceField.name
    IN (IF ifaceArg = << >>
          THEN reportError("Object field argument " \o object.name \o "."
                           \o fieldName \o "(" \o argName
                           \o ":) is of required type "
                           \o TypeString(objectArg.type)
                           \o " but is not also provided by the Interface field "
                           \o iface.name \o "." \o fieldName \o ".", at)
        ELSE NoErrors)
       \o objectArgsLoopAnyExtra(object, iface, ifaceField, objectField, at,
                                 i + 1)

\* "Assert additional arguments must not be required": the loop over
\* objectField.args.
RECURSIVE objectArgsLoop(_, _, _, _, _, _)
objectArgsLoop(object, iface, ifaceField, objectField, at, i) ==
  IF i > Len(objectField.args) THEN NoErrors
  ELSE
    LET objectArg == objectField.args[i]
        argName == objectArg.name
        ifaceArg == findArg(ifaceField.args, argName)
        fieldName == ifaceField.name
    IN (IF ifaceArg = << >> /\ isNonNullType(objectArg.type)
          THEN reportError("Object field argument " \o object.name \o "."
                           \o fieldName \o "(" \o argName
                           \o ":) is of required type "
                           \o TypeString(objectArg.type)
                           \o " but is not also provided by the Interface field "
                           \o iface.name \o "." \o fieldName \o ".", at)
        ELSE NoErrors)
       \o objectArgsLoop(object, iface, ifaceField, objectField, at, i + 1)

\* The body of the loop over the interface's fields.
implementsField(s, object, iface, k, at) ==
  LET ifaceField == iface.fields[k]
      fieldName == ifaceField.name
      objectField == fieldOf(object, fieldName)
  IN IF objectField = << >>
       THEN reportError("Interface field " \o iface.name \o "." \o fieldName
                        \o " expected but " \o object.name
                        \o " does not provide it.", at)
     ELSE (IF ~isTypeSubTypeOf(s, objectField[1].type, ifaceField.type)
             THEN reportError("Interface field " \o iface.name \o "." \o fieldName
                              \o " expects type " \o TypeString(ifaceField.type)
                              \o " but " \o object.name \o "." \o fieldName
                              \o " is type " \o TypeString(objectField[1].type)
                              \o ".", at)
           ELSE NoErrors)
          \o ifaceArgsLoop(object, iface, ifaceField, objectField[1], at, 1)
          \o objectArgsLoop(object, iface, ifaceField, objectField[1], at, 1)

RECURSIVE implementsFieldsLoop(_, _, _, _, _, _)
implementsFieldsLoop(s, object, iface, t, c, k) ==
  IF k > Len(iface.fields) THEN NoErrors
  ELSE implementsField(s, object, iface, k,
                       <<3, t, Len(object.fields) + c, k>>)
       \o implementsFieldsLoop(s, object, iface, t, c, k + 1)

validateObjectImplementsInterface(s, object, iface, t, c) ==
  IF ~isInterfaceType(iface)
    THEN reportError("Type " \o object.name
                     \o " must only implement Interface types, it cannot implement "
                     \o iface.name \o ".", <<3, t, Len(object.fields) + c, 0>>)
  ELSE implementsFieldsLoop(s, object, iface, t, c, 1)

RECURSIVE objectInterfacesLoop(_, _, _, _, _)
objectInterfacesLoop(s, object, t, c, implementedTypeNames) ==
  IF c > Len(object.interfaces) THEN NoErrors
  ELSE
    LET iface == TypeNamed(s, object.interfaces[c])
    IN IF iface.name \in implementedTypeNames
         THEN reportError("Type " \o object.name \o " can only implement "
                          \o iface.name \o " once.",
                          <<3, t, Len(object.fields) + c, 0>>)
              \o objectInterfacesLoop(s, object, t, c + 1, implementedTypeNames)
       ELSE validateObjectImplementsInterface(s, object, iface, t, c)
            \o objectInterfacesLoop(s, object, t, c + 1,
                                    implementedTypeNames \cup {iface.name})

validateObjectInterfaces(s, object, t) ==
  objectInterfacesLoop(s, object, t, 1, {})

\* ------------------------------------------------ unions and input unions

RECURSIVE inputUnionMembersLoop(_, _, _, _, _)
inputUnionMembersLoop(s, inputUnion, t, i, includedTypeNames) ==
  IF i > Len(inputUnion.members) THEN NoErrors
  ELSE
    LET memberType == TypeNamed(s, inputUnion.members[i])
    IN IF memberType.name \in includedTypeNames
         THEN reportError("Input Union type " \o inputUnion.name
                          \o " can only include type " \o memberType.name
                          \o " once.", <<3, t, i, 0>>)
              \o inputUnionMembersLoop(s, inputUnion, t, i + 1,
                                       includedTypeNames)
       ELSE (IF ~isInputObjectType(memberType)
               THEN reportError("Input Union type " \o inputUnion.name
                                \o " can only include Input Object types, "
                                \o "it cannot include " \o memberType.name \o ".",
                                <<3, t, i, 0>>)
             ELSE NoErrors)
            \o inputUnionMembersLoop(s, inputUnion, t, i + 1,
                                     includedTypeNames \cup {memberType.name})

validateInputUnionMembers(s, inputUnion, t) ==
  (IF Len(inputUnion.members) = 0
     THEN reportError("Input Union type " \o inputUnion.name
                      \o " must define one or more member types.",
                      <<3, t, 0, 0>>)
   ELSE NoErrors)
  \o inputUnionMembersLoop(s, inputUnion, t, 1, {})

\* The member loop with a kind rule that lets Input Object members through
\* as well.
RECURSIVE unionMembersLoopInputObjectToo(_, _, _, _, _)
unionMembersLoopInputObjectToo(s, union, t, i, includedTypeNames) ==
  IF i > Len(union.members) THEN NoErrors
  ELSE
    LET memberType == TypeNamed(s, union.members[i])
    IN IF memberType.name \in includedTypeNames
         THEN reportError("Union type " \o union.name \o " can only include type "
                          \o memberType.name \o " once.", <<3, t, i, 0>>)
              \o unionMembersLoopInputObjectToo(s, union, t, i + 1,
                                                includedTypeNames)
       ELSE (IF ~isObjectType(memberType) /\ ~isInputObjectType(memberType)
               THEN reportError("Union type " \o union.name
                                \o " can only include Object types, "
                                \o "it cannot include " \o memberType.name \o ".",
                                <<3, t, i, 0>>)
             ELSE NoErrors)
            \o unionMembersLoopInputObjectToo(s, union, t, i + 1,
                                              includedTypeNames
                                                \cup {memberType.name})

\* The member loop without the "return" after the duplicate report: the
\* kind of a repeated member is checked again.
RECURSIVE unionMembersLoopNoSkip(_, _, _, _, _)
unionMembersLoopNoSkip(s, union, t, i, includedTypeNames) ==
  IF i > Len(union.members) THEN NoErrors
  ELSE
    LET memberType == TypeNamed(s, union.members[i])
    IN (IF memberType.name \in includedTypeNames
          THEN reportError("Union type " \o union.name \o " can only include type "
                           \o memberType.name \o " once.", <<3, t, i, 0>>)
        ELSE NoErrors)
       \o (IF ~isObjectType(memberType)
             THEN reportError("Union type " \o union.name
                              \o " can only include Object types, "
                              \o "it cannot include " \o memberType.name \o ".",
                              <<3, t, i, 0>>)
           ELSE NoErrors)
       \o unionMembersLoopNoSkip(s, union, t, i + 1,
                                 includedTypeNames \cup {memberType.name})

RECURSIVE unionMembersLoop(_, _, _, _, _)
unionMembersLoop(s, union, t, i, includedTypeNames) ==
  IF i > Len(union.members) THEN NoErrors
  ELSE
    LET memberType == TypeNamed(s, union.members[i])
    IN IF memberType.name \in includedTypeNames
         THEN reportError("Union type " \o union.name \o " can only include type "
                          \o memberType.name \o " once.", <<3, t, i, 0>>)
              \o unionMembersLoop(s, union, t, i + 1, includedTypeNames)
       ELSE (IF ~isObjectType(memberType)
               THEN reportError("Union type " \o union.name
                                \o " can only include Object types, "
                                \o "it cannot include " \o memberType.name \o ".",
                                <<3, t, i, 0>>)
             ELSE NoErrors)
            \o unionMembersLoop(s, union, t, i + 1,
                                includedTypeNames \cup {memberType.name})

validateUnionMembers(s, union, t) ==
  (IF Len(union.members) = 0
     THEN reportError("Union type " \o union.name
                      \o " must define one or more member types.",
                      <<3, t, 0, 0>>)
   ELSE NoErrors)
  \o unionMembersLoop(s, union, t, 1, {})

\* ------------------------------------------------- enums and input objects

\* The body of validateEnumValues' loop for one value.
validateEnumValue(s, enumType, t, v) ==
  LET valueName == enumType.values[v]
      allNodes == getEnumValueNodes(enumType, valueName)
  IN (IF allNodes # << >> /\ Len(allNodes[1]) > 1
        THEN reportError("Enum type " \o enumType.name \o " can include value "
                         \o valueName \o " only once.", <<3, t, v, 0>>)
      ELSE NoErrors)
     \o validateName(s, valueName, <<3, t, v, 0>>)
     \o (IF valueName = "true" \/ valueName = "false" \/ valueName = "null"
           THEN reportError("Enum type " \o enumType.name
                            \o " cannot include value: " \o valueName \o ".",
                            <<3, t, v, 0>>)
         ELSE NoErrors)

RECURSIVE enumValuesLoop(_, _, _, _)
enumValuesLoop(s, enumType, t, v) ==
  IF v > Len(enumType.values) THEN NoErrors
  ELSE validateEnumValue(s, enumType, t, v)
       \o enumValuesLoop(s, enumType, t, v + 1)

validateEnumValues(s, enumType, t) ==
  (IF Len(enumType.values) = 0
     THEN reportError("Enum type " \o enumType.name
                      \o " must define one or more values.", <<3, t, 0, 0>>)
   ELSE NoErrors)
  \o enumValuesLoop(s, enumType, t, 1)

RECURSIVE inputFieldsLoop(_, _, _, _)
inputFieldsLoop(s, inputObj, t, f) ==
  IF f > Len(inputObj.fields) THEN NoErrors
  ELSE
    LET field == inputObj.fields[f]
    IN validateName(s, field.name, <<3, t, f, 0>>)
       \o (IF ~isInputType(s, field.type) /\ ~isInputUnionTypeRef(s, field.type)
             THEN reportError("The type of " \o inputObj.name \o "." \o field.name
                              \o " must be Input Type but got: "
                              \o TypeString(field.type) \o ".", <<3, t, f, 0>>)
           ELSE NoErrors)
       \o inputFieldsLoop(s, inputObj, t, f + 1)

validateInputFields(s, inputObj, t) ==
  (IF Len(inputObj.fields) = 0
     THEN reportError("Input Object type " \o inputObj.name
                      \o " must define one or more fields.", <<3, t, 0, 0>>)
   ELSE NoErrors)
  \o inputFieldsLoop(s, inputObj, t, 1)

\* ------------------------------------------------------ the type dispatcher

\* The loop body without the introspection test: the name of every named
\* type, a built-in introspection type too, goes to validateName.
validateTypeNameAlways(s, t) ==
  LET type == s.types[t]
  IN IF ~isNamedType(type)
       THEN reportError("Expected GraphQL named type but got: " \o type.name
                        \o ".", <<3, t, 0, 0>>)
     ELSE validateName(s, type.name, <<3, t, 0, 0>>)
          \o (IF isObjectType(type)
                THEN validateFields(s, type, t)
                     \o validateObjectInterfaces(s, type, t)
              ELSE IF isInterfaceType(type) THEN validateFields(s, type, t)
              ELSE IF isUnionType(type) THEN validateUnionMembers(s, type, t)
              ELSE IF isInputUnionType(type)
                THEN validateInputUnionMembers(s, type, t)
              ELSE IF isEnumType(type) THEN validateEnumValues(s, type, t)
              ELSE IF isInputObjectType(type)
                THEN validateInputFields(s, type, t)
              ELSE NoErrors)

\* The body of validateTypes' loop for one entry of the type map.
validateType(s, t) ==
  LET type == s.types[t]
  IN IF ~isNamedType(type)
       THEN reportError("Expected GraphQL named type but got: " \o type.name
                        \o ".", <<3, t, 0, 0>>)
     ELSE (IF ~type.introspection
             THEN validateName(s, type.name, <<3, t, 0, 0>>)
           ELSE NoErrors)
          \o (IF isObjectType(type)
                THEN validateFields(s, type, t)
                     \o validateObjectInterfaces(s, type, t)
              ELSE IF isInterfaceType(type) THEN validateFields(s, type, t)
              ELSE IF isUnionType(type) THEN validateUnionMembers(s, type, t)
              ELSE IF isInputUnionType(type)
                THEN validateInputUnionMembers(s, type, t)
              ELSE IF isEnumType(type) THEN validateEnumValues(s, type, t)
              ELSE IF isInputObjectType(type)
                THEN validateInputFields(s, type, t)
              ELSE NoErrors)

RECURSIVE typesLoop(_, _)
typesLoop(s, t) ==
  IF t > Len(s.types) THEN NoErrors
  ELSE validateType(s, t) \o typesLoop(s, t + 1)

validateTypes(s) == typesLoop(s, 1)

\* ---------------------------------------------------------- entry points

\* The passes with the type pass run before the directive pass.
runValidationTypesFirst(s) ==
  validateRootTypes(s) \o validateTypes(s) \o validateDirectives(s)

\* The three passes of validateSchema on a fresh context, and getErrors().
runValidation(s) ==
  validateRootTypes(s) \o validateDirectives(s) \o validateTypes(s)

\* A cache test that takes the empty list for "not validated yet".
isValidatedNonEmpty(cell) == cell # << >> /\ Len(cell[1]) # 0

\* if (schema.__validationErrors): any array, the empty one too, is truthy;
\* only the absent cell is not.
isValidated(cell) == cell # << >>

\* validateSchema(input) with the schema's cache cell as it is: what it
\* throws, what it returns, the cache cell after it and whether the passes
\* ran.  An input is the schema ("schema") or the String() of a value that
\* is no GraphQLSchema.
validateSchema(s, input, cell) ==
  IF input # "schema"
    THEN [threw |-> Some("Expected " \o input \o " to be a GraphQL schema."),
          result |-> << >>, cell |-> cell, ran |-> FALSE]
  ELSE IF isValidated(cell)
    THEN [threw |-> << >>, result |-> Some(cell[1]), cell |-> cell,
          ran |-> FALSE]
  ELSE LET errors == runValidation(s)
       IN [threw |-> << >>, result |-> Some(errors), cell |-> Some(errors),
           ran |-> TRUE]

\* The messages joined by a single line break.
RECURSIVE joinMessagesByNewline(_, _)
joinMessagesByNewline(errors, i) ==
  IF i > Len(errors) THEN ""
  ELSE IF i = Len(errors) THEN errors[i].message
  ELSE errors[i].message \o "\n" \o joinMessagesByNewline(errors, i + 1)

\* errors.map(error => error.message).join('\n\n').
RECURSIVE joinMessages(_, _)
joinMessages(errors, i) ==
  IF i > Len(errors) THEN ""
  ELSE IF i = Len(errors) THEN errors[i].message
  ELSE errors[i].message \o "\n\n" \o joinMessages(errors, i + 1)

\* assertValidSchema(input): validateSchema, then the throw.
assertValidSchema(s, input, cell) ==
  LET r == validateSchema(s, input, cell)
  IN IF r.threw # << >> THEN r
     ELSE IF Len(r.result[1]) # 0
       THEN [r EXCEPT !.threw = Some(joinMessages(r.result[1], 1))]
     ELSE r

\* ------------------------------------------------------ building schemas

\* All sequences over S of length at most n.
RECURSIVE SeqsUpTo(_, _)
SeqsUpTo(S, n) ==
  IF n = 0 THEN {<< >>}
  ELSE LET shorter == SeqsUpTo(S, n - 1)
       IN shorter \cup {Append(q, x) : q \in {r \in shorter : Len(r) = n - 1},
                                       x \in S}

Arg(name, type) == [name |-> name, type |-> type]

Field(name, type, args) == [name |-> name, type |-> type, args |-> args]

\* An AST definition or extension node: the names of its field definitions
\* and of its enum value definitions.
Node(fields, values) == [fields |-> fields, values |-> values]

NamedType(name, kind) ==
  [name |-> name, kind |-> kind, introspection |-> FALSE, fields |-> << >>,
   interfaces |-> << >>, members |-> << >>, values |-> << >>,
   astNode |-> << >>, extensionASTNodes |-> << >>]

Directive(name, args) == [isDirective |-> TRUE, name |-> name, args |-> args]

Int == <<"Int">>
NonNullInt == <<"NonNull", "Int">>

TInt == NamedType("Int", "Scalar")
TQuery ==
  [NamedType("Query", "Object") EXCEPT !.fields = <<Field("q", Int, << >>)>>]
TMutation ==
  [NamedType("Mutation", "Object") EXCEPT !.fields = <<Field("m", Int, << >>)>>]
TColor == [NamedType("Color", "Enum") EXCEPT !.values = <<"RED">>]
TPoint ==
  [NamedType("Point", "InputObject") EXCEPT !.fields = <<Field("x", Int, << >>)>>]
TNode ==
  [NamedType("Node", "Interface") EXCEPT !.fields = <<Field("id", Int, << >>)>>]

\* A schema with a query root and nothing wrong, around the given types.
SchemaOf(types) ==
  [queryType |-> "Query", mutationType |-> NONE, subscriptionType |-> NONE,
   directives |-> << >>, types |-> types, allowedLegacyNames |-> << >>]

BaseTypes == <<TInt, TQuery, TMutation, TColor, TPoint, TNode>>

\* ------------------------------------------------------ the state machine

\* What a caller passes: the schema, or a value that is no GraphQLSchema
\* (given by its String()).
Inputs == {"schema", "null"}

InitCalls ==
  /\ validationErrors = << >>
  /\ returned = << >>
  /\ thrown = << >>
  /\ lastCall = [op |-> "none", input |-> "none"]
  /\ calls = 0
  /\ passRuns = 0
  /\ returns = 0
  /\ firstReturned = << >>
  /\ pc = "idle"
  /\ context = << >>

\* The effect of one call whose outcome is r: the cache cell, what the
\* caller got back (value is what the call itself returns), and the
\* bookkeeping of the calls made so far.
Called(op, input, r, value) ==
  /\ validationErrors' = r.cell
  /\ returned' = value
  /\ thrown' = r.threw
  /\ lastCall' = [op |-> op, input |-> input]
  /\ calls' = calls + 1
  /\ passRuns' = IF r.ran THEN passRuns + 1 ELSE passRuns
  /\ returns' = IF r.result # << >> THEN returns + 1 ELSE returns
  /\ firstReturned' = IF firstReturned = << >> THEN r.result ELSE firstReturned
  /\ UNCHANGED schema

ValidateSchemaCall ==
  /\ calls < MaxCalls
  /\ \E input \in Inputs :
       LET r == validateSchema(schema, input, validationErrors)
       IN Called("validateSchema", input, r, r.result)
  /\ UNCHANGED <<pc, context>>

AssertValidSchemaCall ==
  /\ calls < MaxCalls
  /\ \E input \in Inputs :
       LET r == assertValidSchema(schema, input, validationErrors)
       IN Called("assertValidSchema", input, r, << >>)
  /\ UNCHANGED <<pc, context>>

Next == ValidateSchemaCall \/ AssertValidSchemaCall

\* ------------------------------------------------------------ root types

RootCandidates == {NONE, "Query", "Mutation", "Color", "Point", "Node", "Int"}

RootSchemas ==
  {[SchemaOf(BaseTypes) EXCEPT !.queryType = q, !.mutationType = m,
                               !.subscriptionType = u] :
     q \in RootCandidates, m \in RootCandidates, u \in RootCandidates}

InitRoots == schema \in RootSchemas /\ InitCalls

SpecRoots == InitRoots /\ [][Next]_vars

\* ------------------------------------------------------------ directives

DirectiveArgNames == {"x", "y", "9z"}

\* An input type and a type that is none.
DirectiveArgTypes == {Int, <<"Query">>}

DirectiveArgs ==
  {Arg(n, t) : n \in DirectiveArgNames, t \in DirectiveArgTypes}

\* One registered value, a directive or not, with up to MaxDirectiveArgs
\* arguments.
DirectiveSchemas ==
  {[SchemaOf(BaseTypes) EXCEPT
      !.directives = <<[isDirective |-> b, name |-> "d", args |-> args]>>] :
     b \in BOOLEAN, args \in SeqsUpTo(DirectiveArgs, MaxDirectiveArgs)}

InitDirectives == schema \in DirectiveSchemas /\ InitCalls

SpecDirectives == InitDirectives /\ [][Next]_vars

\* ------------------------------------------------ unions and input unions

\* Member candidates: an Object, an Input Object and an Enum.
MemberCandidates == {"Query", "Point", "Color"}

\* The positions of the union and of the input union in the type map.
UnionAt == Len(BaseTypes) + 1
InputUnionAt == Len(BaseTypes) + 2

\* A union U with up to MaxMembers members and an input union IU with one
\* member fewer at most.
UnionSchemas ==
  {SchemaOf(BaseTypes
            \o <<[NamedType("U", "Union") EXCEPT !.members = ms],
                 [NamedType("IU", "InputUnion") EXCEPT !.members = ims]>>) :
     ms \in SeqsUpTo(MemberCandidates, MaxMembers),
     ims \in SeqsUpTo(MemberCandidates, MaxMembers - 1)}

InitUnions == schema \in UnionSchemas /\ InitCalls

SpecUnions == InitUnions /\ [][Next]_vars

\* ------------------------------------------------- interface conformance

\* Field types: a scalar, its non-null form, the interface and the object
\* that implements it.
ConformanceFieldTypes == {Int, NonNullInt, <<"I">>, <<"O">>}

ConformanceArgTypes == {Int, NonNullInt}

IfaceArgs == {Arg("a", t) : t \in ConformanceArgTypes}

ObjectArgs == {Arg(n, t) : n \in {"a", "b"}, t \in ConformanceArgTypes}

\* The positions of the interface and of the object in the type map.
IfaceAt == Len(BaseTypes) + 1
ObjectAt == Len(BaseTypes) + 2

\* Interface I { f(ifaceArgs): ifaceType } and
\* Object O implements I { f(objectArgs): objectType }.
InterfaceSchemas ==
  {SchemaOf(BaseTypes
            \o <<[NamedType("I", "Interface") EXCEPT
                    !.fields = <<Field("f", ifaceType, ifaceArgs)>>],
                 [NamedType("O", "Object") EXCEPT
                    !.fields = <<Field("f", objectType, objectArgs)>>,
                    !.interfaces = <<"I">>]>>) :
     ifaceType \in ConformanceFieldTypes,
     objectType \in ConformanceFieldTypes,
     ifaceArgs \in SeqsUpTo(IfaceArgs, MaxIfaceArgs),
     objectArgs \in SeqsUpTo(ObjectArgs, MaxObjectArgs)}

InitInterfaces == schema \in InterfaceSchemas /\ InitCalls

SpecInterfaces == InitInterfaces /\ [][Next]_vars

\* ------------------------------------------------------------ duplicates

\* The names of seq without repetition, in the order of their first
\* occurrence (the keys of a name-keyed map built from seq).
RECURSIVE Keys(_)
Keys(seq) ==
  IF seq = << >> THEN << >>
  ELSE LET front == Keys(SubSeq(seq, 1, Len(seq) - 1))
       IN IF \E i \in 1..Len(front) : front[i] = Last(seq) THEN front
          ELSE Append(front, Last(seq))

FieldArgs == {Arg(n, t) : n \in {"x", "y"}, t \in {Int, <<"Query">>}}

\* An output type and a type that is none.
FieldTypes == {Int, <<"Point">>}

\* The AST of the object F: no node; one definition of f; f twice in the
\* primary node; f in the primary node and in an extension; f in two
\* extensions without a primary node.
FieldAsts ==
  { [astNode |-> << >>, extensionASTNodes |-> << >>],
    [astNode |-> Some(Node(<<"f", "g">>, << >>)), extensionASTNodes |-> << >>],
    [astNode |-> Some(Node(<<"f", "f", "g">>, << >>)),
     extensionASTNodes |-> << >>],
    [astNode |-> Some(Node(<<"f", "g">>, << >>)),
     extensionASTNodes |-> Some(<<Node(<<"f">>, << >>)>>)],
    [astNode |-> << >>,
     extensionASTNodes |-> Some(<<Node(<<"f">>, << >>),
                                  Node(<<"f", "g">>, << >>)>>)] }

EnumValueNames == {"A", "true", "9z"}

\* The types a claim of the object C may name: the interface Node and the
\* enum Color.
ClaimCandidates == {"Node", "Color"}

\* The types of C.id: the type of Node.id, a subtype of it and a type that
\* is neither.
ClaimFieldTypes == {Int, NonNullInt, <<"Query">>}

\* The positions in the type map of the union U, the input union IU, the
\* object F, the enum E and the object C.
DupUnionAt == Len(BaseTypes) + 1
DupInputUnionAt == Len(BaseTypes) + 2
DupFieldsAt == Len(BaseTypes) + 3
DupEnumAt == Len(BaseTypes) + 4
DupClaimsAt == Len(BaseTypes) + 5

\* One schema with a collection of every kind in which the validators look
\* for duplicates: the arguments of the directive @d, the members of U and
\* of IU, the fields of F (in its AST nodes) and the arguments of F.f, the
\* values of E (in its AST node) and the interfaces C claims.
DuplicateSchema(directiveArgs, members, inputMembers, fType, fArgs, gType,
                fieldAst, enumNodes, enumAst, claims, idType) ==
  [SchemaOf(BaseTypes
            \o <<[NamedType("U", "Union") EXCEPT !.members = members],
                 [NamedType("IU", "InputUnion") EXCEPT !.members = inputMembers],
                 [NamedType("F", "Object") EXCEPT
                    !.fields = <<Field("f", fType, fArgs),
                                 Field("g", gType, << >>)>>,
                    !.astNode = fieldAst.astNode,
                    !.extensionASTNodes = fieldAst.extensionASTNodes],
                 [NamedType("E", "Enum") EXCEPT
                    !.values = Keys(enumNodes),
                    !.astNode = IF enumAst
                                  THEN Some(Node(<< >>, enumNodes))
                                ELSE << >>],
                 [NamedType("C", "Object") EXCEPT
                    !.fields = <<Field("id", idType, << >>)>>,
                    !.interfaces = claims]>>)
   EXCEPT !.directives = <<Directive("d", directiveArgs)>>]

\* The schemas that vary one collection at a time, the others being valid.
DuplicateSchemas ==
  {DuplicateSchema(args, <<"Query">>, <<"Point">>, Int, << >>, Int,
                   [astNode |-> << >>, extensionASTNodes |-> << >>],
                   <<"A">>, TRUE, << >>, Int) :
     args \in SeqsUpTo(DirectiveArgs, MaxDirectiveArgs)}
  \cup
  {DuplicateSchema(<< >>, ms, ms, Int, << >>, Int,
                   [astNode |-> << >>, extensionASTNodes |-> << >>],
                   <<"A">>, TRUE, << >>, Int) :
     ms \in SeqsUpTo(MemberCandidates, MaxMembers) \ {<< >>}}
  \cup
  {DuplicateSchema(<< >>, <<"Query">>, <<"Point">>, fType, fArgs, gType,
                   fieldAst, <<"A">>, TRUE, << >>, Int) :
     fType \in FieldTypes, fArgs \in SeqsUpTo(FieldArgs, MaxFieldArgs),
     gType \in FieldTypes, fieldAst \in FieldAsts}
  \cup
  {DuplicateSchema(<< >>, <<"Query">>, <<"Point">>, Int, << >>, Int,
                   [astNode |-> << >>, extensionASTNodes |-> << >>],
                   enumNodes, enumAst, << >>, Int) :
     enumNodes \in SeqsUpTo(EnumValueNames, MaxEnumValueNodes) \ {<< >>},
     enumAst \in BOOLEAN}
  \cup
  {DuplicateSchema(<< >>, <<"Query">>, <<"Point">>, Int, << >>, Int,
                   [astNode |-> << >>, extensionASTNodes |-> << >>],
                   <<"A">>, TRUE, claims, idType) :
     claims \in SeqsUpTo(ClaimCandidates, MaxClaims),
     idType \in ClaimFieldTypes}

InitDuplicates == schema \in DuplicateSchemas /\ InitCalls

SpecDuplicates == InitDuplicates /\ [][Next]_vars

\* ------------------------------------------------- schemas of every part

\* A union without members and an enum with a reserved value name.
TEmptyUnion == NamedType("Empty", "Union")
TFlags == [NamedType("Flags", "Enum") EXCEPT !.values = <<"ON", "true">>]

\* An object whose field is of an input-only type and that claims an
\* interface whose field it does not provide.
TBadObject ==
  [NamedType("Bad", "Object") EXCEPT
     !.fields = <<Field("p", <<"Point">>, <<Arg("a", <<"Query">>)>>)>>,
     !.interfaces = <<"Node">>]

MixedRoots == {NONE, "Query", "Color"}

MixedDirectives ==
  { << >>,
    <<Directive("skip", <<Arg("if", Int)>>)>>,
    <<[isDirective |-> FALSE, name |-> "junk", args |-> << >>]>>,
    <<Directive("d", <<Arg("x", <<"Query">>), Arg("x", Int)>>),
      Directive("__x", <<Arg("y", <<"Query">>)>>)>> }

MixedTypeMaps ==
  { BaseTypes,
    BaseTypes \o <<TEmptyUnion, TFlags>>,
    <<TBadObject>> \o BaseTypes \o <<TFlags>> }

MixedSchemas ==
  {[SchemaOf(types) EXCEPT !.queryType = q, !.mutationType = m,
                           !.directives = ds] :
     q \in MixedRoots, m \in MixedRoots, ds \in MixedDirectives,
     types \in MixedTypeMaps}

\* The schemas the calls are made on: those with diagnostics of all three
\* passes, those of the root types and those of the duplicates.
Init ==
  /\ schema \in MixedSchemas \cup RootSchemas \cup DuplicateSchemas
  /\ InitCalls

Spec == Init /\ [][Next]_vars

\* ----------------------------------------------------------- properties

\* The schema has been validated: its cache cell holds the diagnostics.
Validated == validationErrors # << >>

\* The number of diagnostics of errs with that message.
CountMessage(errs, message) ==
  Cardinality({i \in 1..Len(errs) : errs[i].message = message})

\* The number of diagnostics of errs with one of those messages.
CountMessages(errs, messages) ==
  Cardinality({i \in 1..Len(errs) : errs[i].message \in messages})

\* The number of diagnostics of errs reported by that pass (1: root types,
\* 2: directives, 3: types).
CountPass(errs, pass) ==
  Cardinality({i \in 1..Len(errs) : errs[i].at[1] = pass})

\* The number of diagnostics with that message for the entity at that
\* position.
CountAt(errs, message, at) ==
  Cardinality({i \in 1..Len(errs) :
                 errs[i].message = message /\ errs[i].at = at})

\* The kind of the type a root refers to ("none" when the root is absent).
RootKind(root) == IF root = NONE THEN "none" ELSE KindOfName(schema, root)

\* C4: root validation reports exactly one diagnostic when the query root is
\* missing ("Query root type must be provided.") or is not of Object kind,
\* exactly one for each of the mutation and subscription roots that is
\* present and not of Object kind, none for an absent mutation or
\* subscription root; a schema whose only defect is a mutation root that is
\* an Enum yields exactly one diagnostic overall, naming the Enum.
C4_RootDiagnostics ==
  Validated =>
    LET errs == validationErrors[1]
        q == schema.queryType
        m == schema.mutationType
        u == schema.subscriptionType
        bad(root) == root # NONE /\ RootKind(root) # "Object"
        queryMessage ==
          IF q = NONE THEN "Query root type must be provided."
          ELSE "Query root type must be Object type, it cannot be " \o q \o "."
        mutationMessage ==
          "Mutation root type must be Object type if provided, it cannot be "
          \o m \o "."
        subscriptionMessage ==
          "Subscription root type must be Object type if provided, it cannot be "
          \o u \o "."
    IN /\ CountMessage(errs, queryMessage)
            = (IF q = NONE \/ bad(q) THEN 1 ELSE 0)
       /\ CountMessage(errs, mutationMessage) = (IF bad(m) THEN 1 ELSE 0)
       /\ CountMessage(errs, subscriptionMessage) = (IF bad(u) THEN 1 ELSE 0)
       /\ CountPass(errs, 1)
            = (IF q = NONE \/ bad(q) THEN 1 ELSE 0)
              + (IF bad(m) THEN 1 ELSE 0) + (IF bad(u) THEN 1 ELSE 0)
       /\ (RootKind(q) = "Object" /\ RootKind(m) = "Enum"
           /\ RootKind(u) \in {"none", "Object"})
            => /\ Len(errs) = 1
               /\ errs[1].message = mutationMessage

\* C4's case: a validated schema whose only defect is a mutation root that
\* is the Enum Color, with its single diagnostic.
C4_Witness ==
  /\ Validated
  /\ schema.queryType = "Query"
  /\ schema.mutationType = "Color"
  /\ schema.subscriptionType = NONE
  /\ Len(validationErrors[1]) = 1

\* Position a is before or at position b (lexicographic order).
AtOrBefore(a, b) ==
  \/ a[1] < b[1]
  \/ a[1] = b[1] /\ a[2] < b[2]
  \/ a[1] = b[1] /\ a[2] = b[2] /\ a[3] < b[3]
  \/ a[1] = b[1] /\ a[2] = b[2] /\ a[3] = b[3] /\ a[4] <= b[4]

\* C1: on one schema instance every validateSchema call returns a list
\* equal to the one the first call returned, and the root, directive and
\* type passes run during the first call only, also when the first result
\* is the empty list.
C1_ValidateOnce ==
  /\ passRuns = (IF returns = 0 THEN 0 ELSE 1)
  /\ returned # << >> => returned = firstReturned
  /\ returns > 0 => validationErrors = firstReturned

\* C1's case: a second validateSchema call on a schema whose first result
\* was the empty list, answered from the cache.
C1_Witness ==
  /\ returns >= 2
  /\ passRuns = 1
  /\ lastCall = [op |-> "validateSchema", input |-> "schema"]
  /\ returned = Some(<< >>)

\* C2: in the returned list every root diagnostic precedes every directive
\* diagnostic, which precedes every type diagnostic; directive diagnostics
\* follow registration order and type diagnostics type-map iteration order,
\* with fields, arguments and interface claims in declaration order.
C2_DiagnosticOrder ==
  returned # << >> =>
    LET errs == returned[1]
    IN \A i, j \in 1..Len(errs) : i < j => AtOrBefore(errs[i].at, errs[j].at)

\* C2's case: a returned list with a root diagnostic, diagnostics of two
\* directives and diagnostics of two types.
C2_Witness ==
  /\ returned # << >>
  /\ LET errs == returned[1]
         has(p, n) == \E i \in 1..Len(errs) :
                        errs[i].at[1] = p /\ errs[i].at[2] = n
     IN has(1, 1) /\ has(2, 1) /\ has(2, 2) /\ has(3, 1)
        /\ \E n \in 2..Len(schema.types) : has(3, n)

\* The messages of errs[1..n], each followed by a blank line but the last.
RECURSIVE JoinedByBlankLine(_, _)
JoinedByBlankLine(errs, n) ==
  IF n = 0 THEN ""
  ELSE IF n = 1 THEN errs[1].message
  ELSE JoinedByBlankLine(errs, n - 1) \o "\n\n" \o errs[n].message

\* C3: assertValidSchema throws, with every diagnostic message joined by a
\* blank line as the message, if and only if validateSchema's list for the
\* schema is not empty; with an empty list it throws nothing and returns
\* nothing.
C3_AssertThrowsIffErrors ==
  lastCall = [op |-> "assertValidSchema", input |-> "schema"] =>
    /\ Validated
    /\ returned = << >>
    /\ thrown # << >> <=> Len(validationErrors[1]) # 0
    /\ thrown # << >> =>
         thrown[1] = JoinedByBlankLine(validationErrors[1],
                                       Len(validationErrors[1]))

\* C3's case: assertValidSchema has thrown the joined messages of a list of
\* at least two diagnostics.
C3_Witness ==
  /\ lastCall = [op |-> "assertValidSchema", input |-> "schema"]
  /\ thrown # << >>
  /\ Len(validationErrors[1]) >= 2

\* The indices of args whose argument has that name.
Occurrences(args, name) == {i \in 1..Len(args) : args[i].name = name}

\* The first index of args whose argument has that name.
FirstOccurrence(args, name) ==
  CHOOSE i \in Occurrences(args, name) :
    \A j \in Occurrences(args, name) : i <= j

\* C9: for a directive with two arguments of one name, directive validation
\* reports exactly one duplicate diagnostic for the name (one for every
\* repetition) and classifies the type of that name at most once, on its
\* first occurrence only; the arguments after the duplicate are still
\* validated (every name's first occurrence is classified).
C9_DirectiveArgDuplicates ==
  (Validated /\ schema.directives[1].isDirective) =>
    LET errs == validationErrors[1]
        directive == schema.directives[1]
        args == directive.args
        duplicate(n) ==
          "Argument @" \o directive.name \o "(" \o n
          \o ":) can only be defined once."
        notInput(n, t) ==
          "The type of @" \o directive.name \o "(" \o n
          \o ":) must be Input Type but got: " \o TypeString(t) \o "."
    IN \A n \in DirectiveArgNames :
         LET occ == Occurrences(args, n)
         IN /\ Cardinality(occ) = 2 => CountMessage(errs, duplicate(n)) = 1
            /\ occ # {} => CountMessage(errs, duplicate(n)) = Cardinality(occ) - 1
            /\ occ = {} => CountMessage(errs, duplicate(n)) = 0
            /\ CountMessages(errs, {notInput(n, t) : t \in DirectiveArgTypes})
                 = (IF occ # {}
                       /\ args[FirstOccurrence(args, n)].type = <<"Query">>
                      THEN 1 ELSE 0)
            /\ \A e \in {errs[k] : k \in 1..Len(errs)} :
                 (\E t \in DirectiveArgTypes : e.message = notInput(n, t))
                   => e.at = <<2, 1, FirstOccurrence(args, n), 0>>

\* C9's case: the directive's arguments are x, x, y, all of a type that is
\* no input type; x is reported as a duplicate once and classified once, and
\* y, after the duplicate, is classified too.
C9_Witness ==
  /\ Validated
  /\ schema.directives[1].isDirective
  /\ schema.directives[1].args
       = <<Arg("x", <<"Query">>), Arg("x", <<"Query">>), Arg("y", <<"Query">>)>>
  /\ Len(validationErrors[1]) = 3
  /\ validationErrors[1][3].at = <<2, 1, 3, 0>>

\* The indices of the member list at which that type is listed.
MemberAt(members, name) == {i \in 1..Len(members) : members[i] = name}

FirstMemberAt(members, name) ==
  CHOOSE i \in MemberAt(members, name) :
    \A j \in MemberAt(members, name) : i <= j

UnionKindMessage(n) ==
  "Union type U can only include Object types, it cannot include " \o n \o "."

InputUnionKindMessage(n) ==
  "Input Union type IU can only include Input Object types, it cannot include "
  \o n \o "."

UnionDuplicateMessage(n) == "Union type U can only include type " \o n \o " once."

InputUnionDuplicateMessage(n) ==
  "Input Union type IU can only include type " \o n \o " once."

\* C7: validating a Union reports one kind diagnostic for each distinct
\* member that is not of Object kind (an Input Object member is rejected),
\* validating an Input Union one for each distinct member that is not of
\* Input Object kind (an Object member is rejected), and no type is
\* accepted as a member by both rules.
C7_MemberKindsDisjoint ==
  Validated =>
    LET errs == validationErrors[1]
        members == schema.types[UnionAt].members
        inputMembers == schema.types[InputUnionAt].members
        rejectedByUnion(n) == CountMessage(errs, UnionKindMessage(n)) > 0
        rejectedByInputUnion(n) ==
          CountMessage(errs, InputUnionKindMessage(n)) > 0
    IN \A n \in MemberCandidates :
         /\ CountMessage(errs, UnionKindMessage(n))
              = (IF MemberAt(members, n) # {} /\ KindOfName(schema, n) # "Object"
                   THEN 1 ELSE 0)
         /\ CountMessage(errs, InputUnionKindMessage(n))
              = (IF MemberAt(inputMembers, n) # {}
                    /\ KindOfName(schema, n) # "InputObject"
                   THEN 1 ELSE 0)
         /\ (MemberAt(members, n) # {} /\ MemberAt(inputMembers, n) # {})
              => rejectedByUnion(n) \/ rejectedByInputUnion(n)
         /\ (MemberAt(members, n) # {} /\ KindOfName(schema, n) = "InputObject")
              => rejectedByUnion(n)
         /\ (MemberAt(inputMembers, n) # {} /\ KindOfName(schema, n) = "Object")
              => rejectedByInputUnion(n)

\* C7's case: the Input Object Point and the Object Query are members of
\* both the union and the input union; the union rejects Point, the input
\* union rejects Query.
C7_Witness ==
  /\ Validated
  /\ schema.types[UnionAt].members = <<"Query", "Point">>
  /\ schema.types[InputUnionAt].members = <<"Point", "Query">>
  /\ CountMessage(validationErrors[1], UnionKindMessage("Point")) = 1
  /\ CountMessage(validationErrors[1], InputUnionKindMessage("Query")) = 1
  /\ Len(validationErrors[1]) = 2

\* C8: a Union or Input Union that lists a member type twice yields exactly
\* one duplicate diagnostic for it (one for every repetition); a member's
\* kind is checked on its first occurrence only, never on a repeated one,
\* and the members after a duplicate are still checked.
C8_MemberDuplicates ==
  Validated =>
    LET errs == validationErrors[1]
        members == schema.types[UnionAt].members
        inputMembers == schema.types[InputUnionAt].members
    IN \A n \in MemberCandidates :
         /\ Cardinality(MemberAt(members, n)) = 2
              => CountMessage(errs, UnionDuplicateMessage(n)) = 1
         /\ Cardinality(MemberAt(inputMembers, n)) = 2
              => CountMessage(errs, InputUnionDuplicateMessage(n)) = 1
         /\ MemberAt(members, n) # {}
              => /\ CountMessage(errs, UnionDuplicateMessage(n))
                      = Cardinality(MemberAt(members, n)) - 1
                 /\ CountAt(errs, UnionKindMessage(n),
                            <<3, UnionAt, FirstMemberAt(members, n), 0>>)
                      = (IF KindOfName(schema, n) # "Object" THEN 1 ELSE 0)
         /\ MemberAt(inputMembers, n) # {}
              => /\ CountMessage(errs, InputUnionDuplicateMessage(n))
                      = Cardinality(MemberAt(inputMembers, n)) - 1
                 /\ CountAt(errs, InputUnionKindMessage(n),
                            <<3, InputUnionAt, FirstMemberAt(inputMembers, n), 0>>)
                      = (IF KindOfName(schema, n) # "InputObject" THEN 1 ELSE 0)
         /\ CountMessage(errs, UnionKindMessage(n)) <= 1
         /\ CountMessage(errs, InputUnionKindMessage(n)) <= 1

\* C8's case: the union lists the Enum Color twice and then the Input Object
\* Point: Color's kind is reported once, its repetition once, and Point,
\* after the duplicate, is reported too.
C8_Witness ==
  /\ Validated
  /\ schema.types[UnionAt].members = <<"Color", "Color", "Point">>
  /\ schema.types[InputUnionAt].members = <<"Point", "Point">>
  /\ CountMessage(validationErrors[1], UnionKindMessage("Color")) = 1
  /\ CountMessage(validationErrors[1], UnionDuplicateMessage("Color")) = 1
  /\ CountMessage(validationErrors[1], UnionKindMessage("Point")) = 1
  /\ CountMessage(validationErrors[1], InputUnionDuplicateMessage("Point")) = 1
  /\ Len(validationErrors[1]) = 4

\* The arguments of the interface field I.f and of the object field O.f.
IfaceFieldArgs == schema.types[IfaceAt].fields[1].args
ObjectFieldArgs == schema.types[ObjectAt].fields[1].args

ExtraArgMessage(n, t) ==
  "Object field argument O.f(" \o n \o ":) is of required type "
  \o TypeString(t) \o " but is not also provided by the Interface field I.f."

ArgTypeMessage(n, ifaceT, objectT) ==
  "Interface field argument I.f(" \o n \o ":) expects type "
  \o TypeString(ifaceT) \o " but O.f(" \o n \o ":) is type "
  \o TypeString(objectT) \o "."

FieldTypeMessage(ifaceT, objectT) ==
  "Interface field I.f expects type " \o TypeString(ifaceT)
  \o " but O.f is type " \o TypeString(objectT) \o "."

\* C5: every argument the object field declares and the interface field
\* does not yields a diagnostic if and only if its type is non-null; an
\* object that adds an optional argument to an otherwise identical field
\* yields no diagnostic, one that adds a non-null argument exactly one for
\* the whole schema, citing that argument.
C5_ExtraArguments ==
  Validated =>
    LET errs == validationErrors[1]
        extra(i) == Occurrences(IfaceFieldArgs, ObjectFieldArgs[i].name) = {}
        ifaceField == schema.types[IfaceAt].fields[1]
        objectField == schema.types[ObjectAt].fields[1]
    IN /\ \A n \in {"a", "b"}, t \in ConformanceArgTypes :
            CountMessage(errs, ExtraArgMessage(n, t))
              = Cardinality({i \in 1..Len(ObjectFieldArgs) :
                               /\ ObjectFieldArgs[i] = Arg(n, t)
                               /\ extra(i)
                               /\ t = NonNullInt})
       /\ (ifaceField = Field("f", Int, <<Arg("a", Int)>>)
           /\ objectField = Field("f", Int, <<Arg("a", Int), Arg("b", Int)>>))
            => errs = << >>
       /\ (ifaceField = Field("f", Int, <<Arg("a", Int)>>)
           /\ objectField
                = Field("f", Int, <<Arg("a", Int), Arg("b", NonNullInt)>>))
            => /\ Len(errs) = 1
               /\ errs[1].message = ExtraArgMessage("b", NonNullInt)

\* C5's case: I { f(a: Int): Int } and O { f(a: Int, b: Int!): Int },
\* validated, with the single diagnostic citing b.
C5_Witness ==
  /\ Validated
  /\ schema.types[IfaceAt].fields[1] = Field("f", Int, <<Arg("a", Int)>>)
  /\ schema.types[ObjectAt].fields[1]
       = Field("f", Int, <<Arg("a", Int), Arg("b", NonNullInt)>>)
  /\ Len(validationErrors[1]) = 1

\* The pairs <<object field type, interface field type>> of
\* ConformanceFieldTypes in which the first is a covariant subtype of the
\* second: equal types, Int! for Int, and the implementing object O for I
\* (the object O is a subtype of I because it claims I).
CovariantPairs ==
  {<<t, t>> : t \in ConformanceFieldTypes}
    \cup {<<NonNullInt, Int>>, <<<<"O">>, <<"I">>>>}

\* C6: for the interface field the object also declares, a type-mismatch
\* diagnostic is reported exactly when the object field's type is not a
\* covariant subtype of the interface field's type; for every interface
\* argument the object field also declares, a diagnostic is reported
\* exactly when the two argument types are not equal, a subtype or a
\* supertype being rejected.
C6_CovariantFieldsInvariantArgs ==
  Validated =>
    LET errs == validationErrors[1]
        ifaceT == schema.types[IfaceAt].fields[1].type
        objectT == schema.types[ObjectAt].fields[1].type
    IN /\ CountMessage(errs, FieldTypeMessage(ifaceT, objectT))
            = (IF <<objectT, ifaceT>> \in CovariantPairs THEN 0 ELSE 1)
       /\ <<objectT, ifaceT>> \in CovariantPairs
            <=> isTypeSubTypeOf(schema, objectT, ifaceT)
       /\ \A n \in {"a", "b"} :
            Occurrences(ObjectFieldArgs, n) # {} =>
              LET objectArgT ==
                    ObjectFieldArgs[FirstOccurrence(ObjectFieldArgs, n)].type
              IN \A t \in ConformanceArgTypes :
                   CountMessage(errs, ArgTypeMessage(n, t, objectArgT))
                     = Cardinality({k \in 1..Len(IfaceFieldArgs) :
                                      /\ IfaceFieldArgs[k] = Arg(n, t)
                                      /\ t # objectArgT})

\* C6's case: I { f(a: Int): I } and O { f(a: Int!): O }: the field type O
\* is accepted as a subtype of I, the argument type Int!, a subtype of Int,
\* is rejected.
C6_Witness ==
  /\ Validated
  /\ schema.types[IfaceAt].fields[1] = Field("f", <<"I">>, <<Arg("a", Int)>>)
  /\ schema.types[ObjectAt].fields[1]
       = Field("f", <<"O">>, <<Arg("a", NonNullInt)>>)
  /\ Len(validationErrors[1]) = 1
  /\ validationErrors[1][1].message = ArgTypeMessage("a", Int, NonNullInt)

DirectiveArgDuplicateMessage(n) ==
  "Argument @d(" \o n \o ":) can only be defined once."

DirectiveArgTypeMessage(n, t) ==
  "The type of @d(" \o n \o ":) must be Input Type but got: "
  \o TypeString(t) \o "."

FieldDuplicateMessage == "Field F.f can only be defined once."

FieldArgDuplicateMessage(n) ==
  "Field argument F.f(" \o n \o ":) can only be defined once."

FieldArgTypeMessage(n, t) ==
  "The type of F.f(" \o n \o ":) must be Input Type but got: "
  \o TypeString(t) \o "."

EnumDuplicateMessage(v) == "Enum type E can include value " \o v \o " only once."

ClaimDuplicateMessage(n) == "Type C can only implement " \o n \o " once."

\* The duplicate diagnostics of the validators that leave the element after
\* reporting: directive arguments, fields, members and claimed interfaces.
LeavingDuplicateMessages ==
  {DirectiveArgDuplicateMessage(n) : n \in DirectiveArgNames}
    \cup {FieldDuplicateMessage}
    \cup {UnionDuplicateMessage(n) : n \in MemberCandidates}
    \cup {InputUnionDuplicateMessage(n) : n \in MemberCandidates}
    \cup {ClaimDuplicateMessage(n) : n \in ClaimCandidates}

\* The duplicate diagnostics of the validators that go on with the element:
\* field arguments and enum values.
StayingDuplicateMessages ==
  {FieldArgDuplicateMessage(n) : n \in {"x", "y"}}
    \cup {EnumDuplicateMessage(v) : v \in EnumValueNames}

\* Position b is position a or a position inside the element at a.
Within(b, a) ==
  /\ b[1] = a[1] /\ b[2] = a[2] /\ b[3] = a[3]
  /\ (a[4] = 0 \/ b[4] = a[4])

\* No diagnostic of the element follows one of its duplicate diagnostics
\* (those of messages).
NothingAfterDuplicate(errs, messages) ==
  \A i, j \in 1..Len(errs) :
    (i < j /\ errs[i].message \in messages) => ~Within(errs[j].at, errs[i].at)

\* The diagnostics of the identifier-grammar checker.
NameErrorMessages ==
  {isValidNameError(n)[1] : n \in ReservedNames \cup MalformedNames}

\* No diagnostic of a type-classification, kind, reserved-name or
\* conformance check of the element follows one of its duplicate
\* diagnostics (those of messages).
NoCheckAfterDuplicate(errs, messages) ==
  \A i, j \in 1..Len(errs) :
    (i < j /\ errs[i].message \in messages
     /\ errs[j].message \notin NameErrorMessages)
      => ~Within(errs[j].at, errs[i].at)

\* The field F.f has more than one definition in the AST nodes of F.
FieldDefinedTwice ==
  Len(getAllObjectOrInterfaceNodes(schema.types[DupFieldsAt])) > 0
  /\ Cardinality({<<n, k>> \in (1..3) \X (1..3) :
        /\ n <= Len(getAllObjectOrInterfaceNodes(schema.types[DupFieldsAt]))
        /\ k <= Len(getAllObjectOrInterfaceNodes(
                      schema.types[DupFieldsAt])[n].fields)
        /\ getAllObjectOrInterfaceNodes(
             schema.types[DupFieldsAt])[n].fields[k] = "f"}) > 1

\* Every element that is no duplicate has its checks run: the first
\* occurrence of a directive argument and of a member, the field after a
\* duplicated field, the first claim of an interface.
OthersChecked(errs) ==
  LET args == schema.directives[1].args
      members == schema.types[DupUnionAt].members
      inputMembers == schema.types[DupInputUnionAt].members
      F == schema.types[DupFieldsAt]
      C == schema.types[DupClaimsAt]
  IN /\ \A i \in 1..Len(args) :
          (i = FirstOccurrence(args, args[i].name) /\ args[i].type = <<"Query">>)
            => CountAt(errs, DirectiveArgTypeMessage(args[i].name, args[i].type),
                       <<2, 1, i, 0>>) = 1
     /\ \A i \in 1..Len(members) :
          (i = FirstMemberAt(members, members[i])
           /\ KindOfName(schema, members[i]) # "Object")
            => CountAt(errs, "Union type U can only include Object types, "
                             \o "it cannot include " \o members[i] \o ".",
                       <<3, DupUnionAt, i, 0>>) = 1
     /\ \A i \in 1..Len(inputMembers) :
          (i = FirstMemberAt(inputMembers, inputMembers[i])
           /\ KindOfName(schema, inputMembers[i]) # "InputObject")
            => CountAt(errs, InputUnionKindMessage(inputMembers[i]),
                       <<3, DupInputUnionAt, i, 0>>) = 1
     /\ F.fields[2].type = <<"Point">>
          => CountAt(errs, "The type of F.g must be Output Type but got: Point.",
                     <<3, DupFieldsAt, 2, 0>>) = 1
     /\ \A c \in 1..Len(C.interfaces) :
          (\A b \in 1..(c - 1) : C.interfaces[b] # C.interfaces[c])
            => /\ C.interfaces[c] = "Color"
                    => CountAt(errs, "Type C must only implement Interface types, "
                                     \o "it cannot implement Color.",
                               <<3, DupClaimsAt, 1 + c, 0>>) = 1
               /\ (C.interfaces[c] = "Node" /\ C.fields[1].type = <<"Query">>)
                    => CountAt(errs, "Interface field Node.id expects type Int "
                                     \o "but C.id is type Query.",
                               <<3, DupClaimsAt, 1 + c, 1>>) = 1

\* The checks that follow the duplicate report of a field argument and of
\* an enum value are run on the duplicate as on any other: every argument
\* of F.f of a type that is no input type is reported, and so is every enum
\* value with a reserved or malformed name.
StayingChecked(errs) ==
  LET F == schema.types[DupFieldsAt]
      fArgs == F.fields[1].args
      values == schema.types[DupEnumAt].values
  IN /\ ~FieldDefinedTwice =>
          \A i \in 1..Len(fArgs) :
            CountAt(errs, FieldArgTypeMessage(fArgs[i].name, fArgs[i].type),
                    <<3, DupFieldsAt, 1, i>>)
              = (IF fArgs[i].type = <<"Query">> THEN 1 ELSE 0)
     /\ \A v \in 1..Len(values) :
          /\ CountAt(errs, "Enum type E cannot include value: " \o values[v]
                           \o ".", <<3, DupEnumAt, v, 0>>)
               = (IF values[v] = "true" THEN 1 ELSE 0)
          /\ CountAt(errs, isValidNameError("9z")[1], <<3, DupEnumAt, v, 0>>)
               = (IF values[v] = "9z" THEN 1 ELSE 0)

\* C10 as stated: in every validator, once a duplicate diagnostic has been
\* reported for an element none of that element's later checks is run or
\* reported, while every other element of the collection is still checked.
C10_NoCheckAfterAnyDuplicate ==
  Validated =>
    /\ NoCheckAfterDuplicate(validationErrors[1],
                             LeavingDuplicateMessages
                               \cup StayingDuplicateMessages)
    /\ OthersChecked(validationErrors[1])

\* C10, amended: once a duplicate diagnostic has been reported for a
\* directive argument, an object or interface field, a union or input-union
\* member or a claimed interface, none of that element's later checks is
\* run or reported; after the duplicate diagnostic of a field argument or
\* of an enum value the later checks (input-type classification; name and
\* reserved name) are still run and reported; every other element of the
\* collection is still checked.
C10_NoCheckAfterLeavingDuplicate ==
  Validated =>
    /\ NothingAfterDuplicate(validationErrors[1], LeavingDuplicateMessages)
    /\ OthersChecked(validationErrors[1])
    /\ StayingChecked(validationErrors[1])

\* C10's case: the field F.f, of a type that is no output type, is defined
\* twice, and the field after it is of such a type too: the duplicate is
\* reported, the type of F.f is not, the type of F.g is.
C10_Witness ==
  /\ Validated
  /\ FieldDefinedTwice
  /\ schema.types[DupFieldsAt].fields[1].type = <<"Point">>
  /\ schema.types[DupFieldsAt].fields[2].type = <<"Point">>
  /\ Len(validationErrors[1]) = 2
  /\ validationErrors[1][1].message = FieldDuplicateMessage

\* ------------------------------------------------------------------ names

\* The names given to the entities of the name schemas: one the checker
\* accepts, one it rejects as reserved and one it rejects as malformed.
FieldNames == {"name", "__x", "9z"}
ArgNames == {"flag", "__x", "9z"}
ValueNames == {"A", "__x", "9z"}
UserTypeNames == {"User", "__x"}

\* schema.__allowedLegacyNames: absent, empty, or a list of legacy names.
LegacyNameLists ==
  {<< >>, Some(<< >>), Some(<<"__x">>), Some(<<"9z">>), Some(<<"9z", "__x">>)}

IntrospectionObjectAt == Len(BaseTypes) + 1
IntrospectionEnumAt == Len(BaseTypes) + 2
UserTypeAt == Len(BaseTypes) + 3

\* A schema with the introspection object __T (one field with one argument),
\* the introspection enum __K (one value) and one object type of the user.
NameSchema(fieldName, argName, valueName, userName, legacy) ==
  [SchemaOf(BaseTypes \o
     << [NamedType("__T", "Object") EXCEPT
           !.introspection = TRUE,
           !.fields = <<Field(fieldName, Int, <<Arg(argName, Int)>>)>>],
        [NamedType("__K", "Enum") EXCEPT
           !.introspection = TRUE, !.values = <<valueName>>],
        [NamedType(userName, "Object") EXCEPT
           !.fields = <<Field("u", Int, << >>)>>] >>)
   EXCEPT !.allowedLegacyNames = legacy]

NameSchemas ==
  {NameSchema(fieldName, argName, valueName, userName, legacy) :
     fieldName \in FieldNames, argName \in ArgNames, valueName \in ValueNames,
     userName \in UserTypeNames, legacy \in LegacyNameLists}

InitNames == schema \in NameSchemas /\ InitCalls

SpecNames == InitNames /\ [][Next]_vars

\* The checker rejects the name.
Rejected(name) == name \in ReservedNames \cup MalformedNames

\* The schema's legacy-name allowlist contains the name.
Allowed(name) ==
  /\ schema.allowedLegacyNames # << >>
  /\ \E i \in 1..Len(schema.allowedLegacyNames[1]) :
       schema.allowedLegacyNames[1][i] = name

\* The number of diagnostics of the checker at that position.
CountNameErrorsAt(errs, at) ==
  Cardinality({i \in 1..Len(errs) :
                 errs[i].message \in NameErrorMessages /\ errs[i].at = at})

\* The diagnostics of the checker at the position are: its verdict on the
\* name, once, when expected is TRUE; none otherwise.
NameReported(errs, name, at, expected) ==
  IF expected
    THEN /\ CountNameErrorsAt(errs, at) = 1
         /\ CountAt(errs, isValidNameError(name)[1], at) = 1
  ELSE CountNameErrorsAt(errs, at) = 0

\* The positions of a type's own name and of the names of its fields, their
\* arguments and its enum values, each with the name there.
NamedEntities(t) ==
  LET type == schema.types[t]
      fields == IF type.kind \in {"Object", "Interface", "InputObject"}
                  THEN type.fields ELSE << >>
      values == IF type.kind = "Enum" THEN type.values ELSE << >>
  IN {[name |-> type.name, at |-> <<3, t, 0, 0>>, own |-> TRUE]}
     \cup {[name |-> fields[f].name, at |-> <<3, t, f, 0>>, own |-> FALSE] :
             f \in 1..Len(fields)}
     \cup UNION {{[name |-> fields[f].args[i].name, at |-> <<3, t, f, i>>,
                   own |-> FALSE] : i \in 1..Len(fields[f].args)} :
                 f \in 1..Len(fields)}
     \cup {[name |-> values[v], at |-> <<3, t, v, 0>>, own |-> FALSE] :
             v \in 1..Len(values)}

IntrospectionTypes == {t \in 1..Len(schema.types) : schema.types[t].introspection}

\* C11 as stated: name validation reports no diagnostic of the checker for
\* a name of the legacy-name allowlist, nor for any entity of a built-in
\* introspection type: the type itself, its fields, their arguments and its
\* enum values.
C11_NoNameCheckOfIntrospectionEntities ==
  Validated =>
    \A t \in 1..Len(schema.types) : \A e \in NamedEntities(t) :
      (Allowed(e.name) \/ schema.types[t].introspection)
        => NameReported(validationErrors[1], e.name, e.at, FALSE)

\* C11: name validation reports no diagnostic of the checker for a name of
\* the legacy-name allowlist, nor for the name of a built-in introspection
\* type itself; every other name, that of a field, an argument or an enum
\* value of an introspection type too, goes to the checker, whose verdict
\* is reported when it rejects the name.
C11_OnlyTypeNameExempt ==
  Validated =>
    \A t \in 1..Len(schema.types) : \A e \in NamedEntities(t) :
      NameReported(validationErrors[1], e.name, e.at,
                   /\ Rejected(e.name)
                   /\ ~Allowed(e.name)
                   /\ ~(e.own /\ schema.types[t].introspection))

\* C11's case: a validated schema whose allowlist holds the reserved name
\* of the field of the introspection object __T, whose argument has a
\* malformed name outside the allowlist; the only diagnostic is the one
\* about the argument.
C11_Witness ==
  /\ Validated
  /\ schema.types[IntrospectionObjectAt].introspection
  /\ Rejected(schema.types[IntrospectionObjectAt].name)
  /\ schema.types[IntrospectionObjectAt].fields[1].name = "__x"
  /\ Allowed("__x")
  /\ schema.types[IntrospectionObjectAt].fields[1].args[1].name = "9z"
  /\ ~Allowed("9z")
  /\ Len(validationErrors[1]) = 1
  /\ validationErrors[1][1] =
       [message |-> isValidNameError("9z")[1],
        at |-> <<3, IntrospectionObjectAt, 1, 1>>]

\* ------------------------------------------------------- field definitions

FieldNodesAt == Len(BaseTypes) + 1

\* What a definition or extension node of the type X defines: both fields,
\* one of them, or the first field twice and the second once.
NodeShapes(fieldName) ==
  {Node(fields, << >>) :
     fields \in {<<fieldName, "g">>, <<fieldName>>, <<"g">>,
                 <<fieldName, fieldName, "g">>}}

\* An object or interface type X with two fields: the first with an
\* argument defined twice, once with a type that is no input type, the
\* second with one argument of such a type.
FieldNodeSchema(kind, fieldName, fType, gType, astNode, extensionASTNodes) ==
  SchemaOf(BaseTypes \o
    << [NamedType("X", kind) EXCEPT
          !.fields = << Field(fieldName, fType,
                              <<Arg("x", <<"Query">>), Arg("x", Int)>>),
                        Field("g", gType, <<Arg("y", <<"Query">>)>>) >>,
          !.astNode = astNode,
          !.extensionASTNodes = extensionASTNodes] >>)

FieldNodeSchemas ==
  UNION {{FieldNodeSchema(kind, fieldName, fType, gType, astNode, extensions) :
            kind \in {"Object", "Interface"}, fType \in FieldTypes,
            gType \in FieldTypes,
            astNode \in {<< >>} \cup {Some(n) : n \in NodeShapes(fieldName)},
            extensions \in {<< >>} \cup
              {Some(q) : q \in SeqsUpTo(NodeShapes(fieldName), MaxExtensions)}} :
         fieldName \in {"f", "9z"}}

InitFieldNodes == schema \in FieldNodeSchemas /\ InitCalls

SpecFieldNodes == InitFieldNodes /\ [][Next]_vars

\* The AST nodes of a type: its primary node, then its extension nodes.
AstNodesOf(type) ==
  (IF type.astNode = << >> THEN << >> ELSE type.astNode)
  \o (IF type.extensionASTNodes = << >> THEN << >>
      ELSE type.extensionASTNodes[1])

\* The number of AST definitions of the field name over those nodes.
DefinitionsOf(type, fieldName) ==
  Cardinality(UNION {{<<n, k>> : k \in {j \in 1..Len(AstNodesOf(type)[n].fields) :
                                          AstNodesOf(type)[n].fields[j] = fieldName}} :
                     n \in 1..Len(AstNodesOf(type))})

\* The number of diagnostics about the field f of the type t or about one
\* of its arguments, those of the name checker apart.
CountFieldChecks(errs, t, f) ==
  Cardinality({i \in 1..Len(errs) :
                 /\ errs[i].at[1] = 3 /\ errs[i].at[2] = t /\ errs[i].at[3] = f
                 /\ errs[i].message \notin NameErrorMessages})

FieldDefinedOnceMessage(type, field) ==
  "Field " \o type.name \o "." \o field.name \o " can only be defined once."

FieldOutputTypeMessage(type, field) ==
  "The type of " \o type.name \o "." \o field.name
  \o " must be Output Type but got: " \o TypeString(field.type) \o "."

ArgInputTypeMessage(type, field, arg) ==
  "The type of " \o type.name \o "." \o field.name \o "(" \o arg.name
  \o ":) must be Input Type but got: " \o TypeString(arg.type) \o "."

\* The field f of the type t went through the output-type check and the
\* argument checks: a diagnostic for its type when that is no output type,
\* and one for every argument whose type is no input type.
FieldChecked(errs, t, f) ==
  LET type == schema.types[t]
      field == type.fields[f]
  IN /\ CountAt(errs, FieldDefinedOnceMessage(type, field), <<3, t, f, 0>>) = 0
     /\ CountAt(errs, FieldOutputTypeMessage(type, field), <<3, t, f, 0>>)
          = (IF field.type = <<"Point">> THEN 1 ELSE 0)
     /\ \A i \in 1..Len(field.args) :
          CountAt(errs, ArgInputTypeMessage(type, field, field.args[i]),
                  <<3, t, f, i>>)
            = (IF field.args[i].type = <<"Query">> THEN 1 ELSE 0)

\* C12: for every field of an object or interface type whose name has more
\* than one AST definition over the type's primary node and its extension
\* nodes, validateFields reports exactly one duplicate diagnostic, and no
\* output-type or argument diagnostic; every field defined at most once,
\* those after a duplicated field too, has its type and arguments checked.
C12_DuplicateFieldReportedOnce ==
  Validated =>
    LET errs == validationErrors[1]
        type == schema.types[FieldNodesAt]
    IN \A f \in 1..Len(type.fields) :
         IF DefinitionsOf(type, type.fields[f].name) > 1
           THEN /\ CountAt(errs, FieldDefinedOnceMessage(type, type.fields[f]),
                           <<3, FieldNodesAt, f, 0>>) = 1
                /\ CountFieldChecks(errs, FieldNodesAt, f) = 1
         ELSE FieldChecked(errs, FieldNodesAt, f)

\* C12's case: the first field of the interface X, of a type that is no
\* output type, is defined in the primary node and again in an extension
\* node; the second field, defined once, is of such a type too.  The
\* diagnostics are the duplicate of the first field, then the type and the
\* argument of the second.
C12_Witness ==
  /\ Validated
  /\ schema.types[FieldNodesAt].kind = "Interface"
  /\ schema.types[FieldNodesAt].astNode # << >>
  /\ DefinitionsOf(schema.types[FieldNodesAt], "f") = 2
  /\ Len(fieldNodesLoop(<<schema.types[FieldNodesAt].astNode[1]>>, "f", 1)) = 1
  /\ DefinitionsOf(schema.types[FieldNodesAt], "g") = 1
  /\ schema.types[FieldNodesAt].fields[1].type = <<"Point">>
  /\ schema.types[FieldNodesAt].fields[2].type = <<"Point">>
  /\ Len(validationErrors[1]) = 3
  /\ validationErrors[1][1] =
       [message |-> "Field X.f can only be defined once.",
        at |-> <<3, FieldNodesAt, 1, 0>>]
  /\ validationErrors[1][2].message =
       "The type of X.g must be Output Type but got: Point."
  /\ validationErrors[1][3].message =
       "The type of X.g(y:) must be Input Type but got: Query."

\* ------------------------------------------------- the run, pass by pass

\* The same two operations with a run of the passes taken one statement at
\* a time: pc stands at the statement to execute next, context holds the
\* diagnostics pushed so far.

\* A run that stores the context's list in the cache cell as soon as it has
\* one, after every pass.
cellAfterEveryPass(cell, errors, at) == Some(errors)

\* schema.__validationErrors after the statement at `at`: assigned by the
\* statement that persists the results, left alone by the passes.
cellAfter(cell, errors, at) == IF at = "persist" THEN Some(errors) ELSE cell

\* The call goes as far as the context: it throws on a value that is no
\* schema, returns the cached list when there is one, and otherwise makes a
\* context with an empty list and is about to run the first pass.
BeginCall(op) ==
  /\ pc = "idle"
  /\ calls < MaxCalls
  /\ \E input \in Inputs :
       IF input = "schema" /\ ~isValidated(validationErrors)
         THEN /\ pc' = "rootTypes"
              /\ context' = Some(NoErrors)
              /\ lastCall' = [op |-> op, input |-> input]
              /\ UNCHANGED <<schema, validationErrors, returned, thrown, calls,
                             passRuns, returns, firstReturned>>
       ELSE /\ LET r == IF op = "validateSchema"
                          THEN validateSchema(schema, input, validationErrors)
                        ELSE assertValidSchema(schema, input, validationErrors)
               IN Called(op, input, r,
                         IF op = "validateSchema" THEN r.result ELSE << >>)
            /\ UNCHANGED <<pc, context>>

BeginValidateSchema == BeginCall("validateSchema")

BeginAssertValidSchema == BeginCall("assertValidSchema")

\* One pass: what it found is pushed onto the context's list.
Pass(found, next) ==
  /\ context' = Some(context[1] \o found)
  /\ validationErrors' = cellAfter(validationErrors, context[1] \o found, pc)
  /\ pc' = next
  /\ UNCHANGED <<schema, returned, thrown, lastCall, calls, passRuns, returns,
                 firstReturned>>

RootTypesPass == pc = "rootTypes" /\ Pass(validateRootTypes(schema), "directives")

DirectivesPass == pc = "directives" /\ Pass(validateDirectives(schema), "types")

TypesPass == pc = "types" /\ Pass(validateTypes(schema), "persist")

\* The end of the run: getErrors(), the assignment to the cache cell and
\* the return; in assertValidSchema, the throw when the list is not empty.
Persist ==
  /\ pc = "persist"
  /\ LET errors == context[1]
         r == [threw |-> IF lastCall.op = "assertValidSchema" /\ Len(errors) # 0
                           THEN Some(joinMessages(errors, 1)) ELSE << >>,
               result |-> Some(errors),
               cell |-> cellAfter(validationErrors, errors, pc),
               ran |-> TRUE]
     IN Called(lastCall.op, lastCall.input, r,
               IF lastCall.op = "validateSchema" THEN r.result ELSE << >>)
  /\ pc' = "idle"
  /\ context' = << >>

NextSteps ==
  \/ BeginValidateSchema
  \/ BeginAssertValidSchema
  \/ RootTypesPass
  \/ DirectivesPass
  \/ TypesPass
  \/ Persist

InitSteps == schema \in MixedSchemas \cup RootSchemas /\ InitCalls

SpecSteps == InitSteps /\ [][NextSteps]_vars

\* What the cache cell, the counters and the last outcome allow at every
\* point: the cell is absent or holds the list of all three passes, stored
\* by the one run that finished; a list was handed out only after that run.
CacheCellComplete ==
  /\ passRuns <= 1
  /\ Validated <=> passRuns = 1
  /\ Validated => validationErrors[1] = validateRootTypes(schema)
                                         \o validateDirectives(schema)
                                         \o validateTypes(schema)
  /\ returns > 0 => Validated
  /\ pc # "idle" => ~Validated /\ context # << >>

\* What a step may change: never the schema graph; the cache cell only
\* from absent to a list, by the statement that ends a run; nothing of the
\* schema when the call throws on a value that is no schema.
CacheCellWrittenOnce ==
  /\ schema' = schema
  /\ validationErrors' # validationErrors
       => /\ validationErrors = << >>
          /\ pc = "persist"
          /\ validationErrors' = Some(context[1])
          /\ passRuns' = passRuns + 1
  /\ (calls' # calls /\ lastCall'.input # "schema")
       => /\ validationErrors' = validationErrors
          /\ thrown' = Some("Expected " \o lastCall'.input
                            \o " to be a GraphQL schema.")
          /\ passRuns' = passRuns

\* C13: at every point of every sequence of validateSchema and
\* assertValidSchema calls on a schema, inside a run too, the cache cell is
\* absent or holds the complete diagnostic list of the run that finished,
\* never a partial one; it is written once, by that run; the schema graph
\* is never modified; a call that throws because its input is no schema
\* writes nothing.
C13_CacheCellAbsentOrComplete ==
  [] CacheCellComplete /\ [][CacheCellWrittenOnce]_vars

\* C13's case: after a call that threw on a value that is no schema, a run
\* is between the directive pass and the type pass; its context holds some
\* diagnostics, not yet all, and the cache cell is still absent.
C13_Witness ==
  /\ pc = "types"
  /\ calls > 0
  /\ thrown # << >>
  /\ Len(context[1]) > 0
  /\ Len(context[1]) < Len(runValidation(schema))
  /\ ~Validated

====
